---- MODULE Spec2Model ----
(***************************************************************************)
(* Model of jms/api.py: the Request object, the routed and signed          *)
(* ApiRequest.request call, and the credential binding of AppService and   *)
(* UserService.                                                            *)
(*                                                                         *)
(* Python values are records with a "kind" field, so that values of        *)
(* different Python types can be compared.  Strings that the code takes    *)
(* apart (URL paths, the endpoint, JSON text) are sequences of segments.   *)
(***************************************************************************)
EXTENDS Integers, Sequences, FiniteSets, TLC

VARIABLES
    service,            \* which subclass of ApiRequest the client is: "app" | "user"
    endpoint,           \* ApiRequest.endpoint
    app_name,           \* ApiRequest.app_name
    auth,               \* ApiRequest._auth
    req,                \* ApiRequest.req: the Request object stored by the last call
    reqOwner,           \* the thread whose local `req` aliases the object in self.req
    api_url_mapping,    \* ApiRequest.api_url_mapping
    access_key_id,      \* AppService.access_key_id
    access_key_secret,  \* AppService.access_key_secret
    pc,                 \* per thread: position in the operation it is running
    args,               \* per thread: the arguments of the running operation
    lreq,               \* per thread: the local variable `req` of ApiRequest.request
    result,             \* per thread: the local variable `result`
    ret,                \* per thread: the value returned to the caller
    exc,                \* per thread: the exception that left the operation
    wire,               \* per thread: what the transport saw during the running call
    rq_in,              \* Request.__init__ on its own: the constructor's arguments
    rq_out              \* Request.__init__ on its own: the constructed object

vars == <<service, endpoint, app_name, auth, req, reqOwner, api_url_mapping,
          access_key_id, access_key_secret, pc, args, lreq, result, ret, exc,
          wire, rq_in, rq_out>>

clientVars == <<service, endpoint, app_name, auth, req, reqOwner,
                api_url_mapping, access_key_id, access_key_secret>>
threadVars == <<pc, args, lreq, result, ret, exc, wire>>
ctorVars == <<rq_in, rq_out>>

(***************************************************************************)
(* Bounds of the model.                                                    *)
(***************************************************************************)
MaxPk == 1          \* integer primary keys are 0..MaxPk
MaxHeaders == 2     \* entries of a caller-supplied headers dict
MaxBodyKeys == 2    \* entries of a body dict

(***************************************************************************)
(* Python values.                                                          *)
(***************************************************************************)
PyNone == [kind |-> "None"]
PyStr(s) == [kind |-> "str", s |-> s]
PyInt(n) == [kind |-> "int", n |-> n]
PyBool(b) == [kind |-> "bool", b |-> b]
PyList(xs) == [kind |-> "list", items |-> xs]
\* A dict is its items in iteration order, keys distinct.
PyDict(items) == [kind |-> "dict", items |-> items]
\* A DotMap is a dict subclass with attribute access.
PyDotMap(items) == [kind |-> "DotMap", items |-> items]

\* isinstance(v, dict)
IsDict(v) == v.kind \in {"dict", "DotMap"}

\* bool(v)
Truthy(v) ==
    CASE v.kind = "None" -> FALSE
      [] v.kind = "str" -> v.s # ""
      [] v.kind = "int" -> v.n # 0
      [] v.kind = "bool" -> v.b
      [] v.kind \in {"list", "dict", "DotMap"} -> v.items # <<>>
      [] OTHER -> TRUE

\* str(v), as '%s' formatting renders a value
Str(v) ==
    CASE v.kind = "None" -> "None"
      [] v.kind = "str" -> v.s
      [] v.kind = "int" -> ToString(v.n)
      [] OTHER -> "<object>"

Range(f) == {f[i] : i \in DOMAIN f}

(***************************************************************************)
(* requests.structures.CaseInsensitiveDict: a store keyed by the           *)
(* lower-cased name, each entry keeping the name as last written and the   *)
(* value.                                                                  *)
(***************************************************************************)
\* str.lower() on the header names of the model
Lower(k) ==
    CASE k \in {"Content-Type", "content-type", "CONTENT-TYPE"} -> "content-type"
      [] k \in {"User-Agent", "user-agent", "USER-AGENT"} -> "user-agent"
      [] k = "Authorization" -> "authorization"
      [] k = "Cookie" -> "cookie"
      [] k = "X-CSRFToken" -> "x-csrftoken"
      [] k = "X-Trace" -> "x-trace"
      [] OTHER -> k

\* Mutant of CIDSet: a plain dict, keyed by the name as written.
CIDSetCaseSensitive(store, key, value) ==
    [k \in (DOMAIN store) \cup {key} |->
        IF k = key THEN [key |-> key, value |-> value] ELSE store[k]]

\* CaseInsensitiveDict.__setitem__
CIDSet(store, key, value) ==
    [k \in (DOMAIN store) \cup {Lower(key)} |->
        IF k = Lower(key) THEN [key |-> key, value |-> value] ELSE store[k]]

\* CaseInsensitiveDict.__contains__
CIDHas(store, key) == Lower(key) \in DOMAIN store

\* CaseInsensitiveDict(data): update() writes the items in iteration order
RECURSIVE CIDFromItems(_, _)
CIDFromItems(store, items) ==
    IF items = <<>> THEN store
    ELSE CIDFromItems(CIDSet(store, items[1][1], items[1][2]), Tail(items))

\* the empty store
CIDEmpty == [k \in {} |-> [key |-> "", value |-> ""]]

(***************************************************************************)
(* json.dumps of a dict with string keys and scalar values, as a sequence  *)
(* of JSON tokens.                                                         *)
(***************************************************************************)
JsonScalar(v) ==
    CASE v.kind = "None" -> "null"
      [] v.kind = "str" -> "\"" \o v.s \o "\""
      [] v.kind = "int" -> ToString(v.n)
      [] v.kind = "bool" -> IF v.b THEN "true" ELSE "false"
      [] OTHER -> "<unserializable>"

RECURSIVE JsonMembers(_)
JsonMembers(items) ==
    IF items = <<>> THEN <<>>
    ELSE <<"\"" \o items[1][1] \o "\"", ":", JsonScalar(items[1][2])>>
         \o (IF Len(items) > 1 THEN <<",">> ELSE <<>>)
         \o JsonMembers(Tail(items))

json_dumps(d) == <<"{">> \o JsonMembers(d.items) \o <<"}">>

\* DotMap.toDict()
toDict(d) == PyDict(d.items)

(***************************************************************************)
(* class Request                                                           *)
(***************************************************************************)
USER_AGENT == "jms-sdk-py"

\* Request.func_mapping: method name -> the requests function called
func_mapping ==
    [m \in {"get", "post", "patch", "put"} |->
        CASE m = "get" -> "GET"
          [] m = "post" -> "POST"
          [] m = "patch" -> "PATCH"
          [] m = "put" -> "PUT"]

\* Mutant of RequestInit: type(data) is dict instead of isinstance(data, dict),
\* so that a DotMap body is coerced to the empty object.
RequestInitExactDict(url, method, data, params, headers, content_type, app) ==
    LET h0 == IF IsDict(headers) THEN headers.items ELSE <<>>
        h1 == CIDFromItems(CIDEmpty, h0)
        h2 == CIDSet(h1, "Content-Type", content_type)
        d0 == IF data.kind = "dict" THEN data ELSE PyDict(<<>>)
        h3 == IF ~CIDHas(h2, "User-Agent")
              THEN CIDSet(h2, "User-Agent",
                          IF app # "" THEN USER_AGENT \o "/" \o app
                                      ELSE USER_AGENT)
              ELSE h2
    IN  [kind |-> "Request",
         url |-> url,
         method |-> method,
         params |-> IF Truthy(params) THEN params ELSE PyDict(<<>>),
         result |-> PyNone,
         headers |-> h3,
         data |-> json_dumps(PyDict(d0.items))]

\* Request.__init__
RequestInit(url, method, data, params, headers, content_type, app) ==
    LET h0 == IF IsDict(headers) THEN headers.items ELSE <<>>
        h1 == CIDFromItems(CIDEmpty, h0)
        h2 == CIDSet(h1, "Content-Type", content_type)
        d0 == IF IsDict(data) THEN data ELSE PyDict(<<>>)
        d1 == IF d0.kind = "DotMap" THEN toDict(d0) ELSE d0
        h3 == IF ~CIDHas(h2, "User-Agent")
              THEN CIDSet(h2, "User-Agent",
                          IF app # "" THEN USER_AGENT \o "/" \o app
                                      ELSE USER_AGENT)
              ELSE h2
    IN  [kind |-> "Request",
         url |-> url,
         method |-> method,
         params |-> IF Truthy(params) THEN params ELSE PyDict(<<>>),
         result |-> PyNone,
         headers |-> h3,
         data |-> json_dumps(PyDict(d1.items))]

(***************************************************************************)
(* The route table (jms/config.py) and route resolution.  A path template  *)
(* is a sequence of segments; the segment "%s" is the substitution slot.   *)
(***************************************************************************)
API_URL_MAPPING ==
    [n \in {"my-profile", "send-proxy-log", "finish-proxy-log"} |->
        CASE n = "my-profile" -> <<"/api/users/v1/profile/">>
          [] n = "send-proxy-log" -> <<"/api/audits/v1/proxy-log/receive/">>
          [] n = "finish-proxy-log" -> <<"/api/audits/v1/proxy-log/", "%s", "/">>]

\* '%s' in path
HasSlot(path) == \E i \in DOMAIN path : path[i] = "%s"

\* path % pk: the first slot is replaced by str(pk)
FormatPath(path, pk) ==
    LET i == CHOOSE j \in DOMAIN path :
                 path[j] = "%s" /\ \A k \in 1..(j - 1) : path[k] # "%s"
    IN  [j \in DOMAIN path |-> IF j = i THEN Str(pk) ELSE path[j]]

\* lines 96-101 of ApiRequest.request
ResolvePath(mapping, api_name, pk) ==
    IF api_name \in DOMAIN mapping
    THEN LET path == mapping[api_name]
         IN  IF Truthy(pk) /\ HasSlot(path) THEN FormatPath(path, pk) ELSE path
    ELSE <<"/">>

\* str.rstrip('/') on an endpoint given as segments
RECURSIVE RStripSlash(_)
RStripSlash(e) ==
    IF e # <<>> /\ e[Len(e)] = "/" THEN RStripSlash(SubSeq(e, 1, Len(e) - 1))
    ELSE e

(***************************************************************************)
(* jms/authentication.py: class Auth.                                      *)
(***************************************************************************)
\* Auth(**kw): one of the three variants, or ValueError when none is complete
AuthInit(kw) ==
    IF Truthy(kw.token)
    THEN [ok |-> TRUE,
          value |-> [kind |-> "Auth", variant |-> "token", a |-> kw.token.s, b |-> ""]]
    ELSE IF Truthy(kw.access_key_id) /\ Truthy(kw.access_key_secret)
    THEN [ok |-> TRUE,
          value |-> [kind |-> "Auth", variant |-> "keypair",
                     a |-> kw.access_key_id.s, b |-> kw.access_key_secret.s]]
    ELSE IF Truthy(kw.session_id) /\ Truthy(kw.csrf_token)
    THEN [ok |-> TRUE,
          value |-> [kind |-> "Auth", variant |-> "session",
                     a |-> kw.session_id.s, b |-> kw.csrf_token.s]]
    ELSE [ok |-> FALSE, value |-> PyNone]

NoKw == [token |-> PyNone, access_key_id |-> PyNone, access_key_secret |-> PyNone,
         session_id |-> PyNone, csrf_token |-> PyNone]

\* Auth.sign_request(req): adds the variant's headers, nothing else
sign_request(a, r) ==
    LET h == r.headers
        h2 == CASE a.variant = "token" ->
                     CIDSet(h, "Authorization", "Bearer " \o a.a)
                [] a.variant = "keypair" ->
                     CIDSet(h, "Authorization", "Sign " \o a.a \o ":<signature>")
                [] a.variant = "session" ->
                     CIDSet(CIDSet(h, "Cookie", "sessionid=" \o a.a),
                            "X-CSRFToken", a.b)
    IN  [r EXCEPT !.headers = h2]

(***************************************************************************)
(* The inputs of the model.                                                *)
(***************************************************************************)
Threads == {"t1", "t2"}

Endpoints == {<<"http://localhost:8080">>, <<"http://localhost:8080", "/">>}

ApiNames == (DOMAIN API_URL_MAPPING) \cup {"unknown-op"}
PkValues == {PyNone, PyStr("")} \cup {PyInt(n) : n \in 0..MaxPk}
Methods == DOMAIN func_mapping
CallBodies == {PyNone, PyDotMap(<< <<"name", PyStr("coco")>> >>)}
CallParams == {PyNone}

\* the arguments of ApiRequest.request
CallArgs ==
    [api_name : ApiNames, pk : PkValues, method : Methods, use_auth : BOOLEAN,
     data : CallBodies, params : CallParams, content_type : {"application/json"}]

\* what requests.<verb>() can do: raise a connection error, or return a response
SERVER_ERROR == 500
Statuses == {200, SERVER_ERROR, SERVER_ERROR + 2}
Bodies == {[json |-> TRUE, value |-> PyDict(<< <<"id", PyInt(7)>> >>)],
           [json |-> FALSE, value |-> PyStr("not json")]}
Outcomes ==
    {[kind |-> "ConnectionError"], [kind |-> "ConnectTimeout"]}
    \cup {[kind |-> "Response", status_code |-> s, body |-> b] :
             s \in Statuses, b \in Bodies}

\* the values a caller passes for a token, a session id, a csrf token, a key
CredValues == {PyNone, PyStr(""), PyStr("s3cr3t")}
KeyIds == {PyNone, PyStr("AK1"), PyStr("AK2")}
KeySecrets == {PyNone, PyStr("SK1")}

NoArgs == [op |-> "none"]

(***************************************************************************)
(* The client after construction: ApiRequest.__init__, AppService.__init__ *)
(* and UserService.__init__ with auth=None.                                *)
(***************************************************************************)
ClientInit ==
    /\ service \in {"app", "user"}
    /\ endpoint \in Endpoints
    /\ app_name = IF service = "app" THEN "coco" ELSE ""
    /\ auth = PyNone
    /\ req = PyNone
    /\ reqOwner = "nobody"
    /\ api_url_mapping = API_URL_MAPPING
    /\ access_key_id = PyNone
    /\ access_key_secret = PyNone

ThreadsInit ==
    /\ pc = [t \in Threads |-> "idle"]
    /\ args = [t \in Threads |-> NoArgs]
    /\ lreq = [t \in Threads |-> PyNone]
    /\ result = [t \in Threads |-> PyNone]
    /\ ret = [t \in Threads |-> PyNone]
    /\ exc = [t \in Threads |-> "none"]
    /\ wire = [t \in Threads |-> <<>>]

Init ==
    /\ ClientInit
    /\ ThreadsInit
    /\ rq_in = PyNone
    /\ rq_out = PyNone

(***************************************************************************)
(* ApiRequest.request, one action per step of the call.                    *)
(***************************************************************************)
\* a write through the local `req`: self.req sees it while it is the same object
Alias(t, r) == IF reqOwner = t THEN r ELSE req

Raise(t, e) ==
    /\ exc' = [exc EXCEPT ![t] = e]
    /\ pc' = [pc EXCEPT ![t] = "raised"]

\* Mutant of BeginCall: the stripped endpoint is written back to self.endpoint.
BeginCallStoresEndpoint(t, A) ==
    /\ pc[t] = "idle"
    /\ \E a \in A :
          LET path == ResolvePath(api_url_mapping, a.api_name, a.pk)
              url == RStripSlash(endpoint) \o path
              r == RequestInit(url, a.method, a.data, a.params, PyNone,
                               a.content_type, app_name)
          IN  /\ args' = [args EXCEPT ![t] = [op |-> "request", a |-> a]]
              /\ lreq' = [lreq EXCEPT ![t] = r]
              /\ req' = r
              /\ reqOwner' = t
    /\ endpoint' = RStripSlash(endpoint)
    /\ pc' = [pc EXCEPT ![t] = "built"]
    /\ UNCHANGED <<service, app_name, auth, api_url_mapping,
                   access_key_id, access_key_secret, result, ret, exc, wire>>
    /\ UNCHANGED ctorVars

\* lines 96-106: resolve the route, build the URL, construct the Request and
\* store it in self.req
BeginCall(t, A) ==
    /\ pc[t] = "idle"
    /\ \E a \in A :
          LET path == ResolvePath(api_url_mapping, a.api_name, a.pk)
              url == RStripSlash(endpoint) \o path
              r == RequestInit(url, a.method, a.data, a.params, PyNone,
                               a.content_type, app_name)
          IN  /\ args' = [args EXCEPT ![t] = [op |-> "request", a |-> a]]
              /\ lreq' = [lreq EXCEPT ![t] = r]
              /\ req' = r
              /\ reqOwner' = t
    /\ pc' = [pc EXCEPT ![t] = "built"]
    /\ UNCHANGED <<service, endpoint, app_name, auth, api_url_mapping,
                   access_key_id, access_key_secret, result, ret, exc, wire>>
    /\ UNCHANGED ctorVars

\* Mutant of AuthGate: `if use_auth and self._auth:`, an unbound credential is
\* skipped instead of refused.
AuthGateSkipsUnbound(t) ==
    /\ pc[t] = "built"
    /\ IF args[t].a.use_auth /\ Truthy(auth)
       THEN pc' = [pc EXCEPT ![t] = "sign"]
       ELSE pc' = [pc EXCEPT ![t] = "send"]
    /\ UNCHANGED <<clientVars, args, lreq, result, ret, exc, wire, ctorVars>>

\* lines 107-110: the authentication gate
AuthGate(t) ==
    /\ pc[t] = "built"
    /\ IF args[t].a.use_auth
       THEN IF ~Truthy(auth)
            THEN Raise(t, "RequestError")
            ELSE pc' = [pc EXCEPT ![t] = "sign"] /\ UNCHANGED exc
       ELSE pc' = [pc EXCEPT ![t] = "send"] /\ UNCHANGED exc
    /\ UNCHANGED <<clientVars, args, lreq, result, ret, wire, ctorVars>>

\* line 111: self._auth.sign_request(req)
SignRequest(t) ==
    /\ pc[t] = "sign"
    /\ LET r == sign_request(auth, lreq[t])
       IN  /\ lreq' = [lreq EXCEPT ![t] = r]
           /\ req' = Alias(t, r)
    /\ pc' = [pc EXCEPT ![t] = "send"]
    /\ UNCHANGED <<service, endpoint, app_name, auth, reqOwner, api_url_mapping,
                   access_key_id, access_key_secret, args, result, ret, exc,
                   wire, ctorVars>>

\* what the transport is handed by Request.request (lines 67-70)
WireEntry(r, o) ==
    [verb |-> func_mapping[r.method], url |-> r.url, headers |-> r.headers,
     data |-> r.data, params |-> r.params, outcome |-> o]

\* Mutant of Dispatch: a connection error is retried once.
DispatchRetries(t) ==
    /\ pc[t] = "send"
    /\ \E o \in Outcomes :
          IF o.kind = "Response"
          THEN LET r == [lreq[t] EXCEPT !.result = o]
               IN  /\ wire' = [wire EXCEPT ![t] = Append(@, WireEntry(lreq[t], o))]
                   /\ lreq' = [lreq EXCEPT ![t] = r]
                   /\ req' = Alias(t, r)
                   /\ result' = [result EXCEPT ![t] = o]
          ELSE \E o2 \in Outcomes :
                   /\ wire' = [wire EXCEPT ![t] =
                                  @ \o <<WireEntry(lreq[t], o), WireEntry(lreq[t], o2)>>]
                   /\ IF o2.kind = "Response"
                      THEN LET r == [lreq[t] EXCEPT !.result = o2]
                           IN  /\ lreq' = [lreq EXCEPT ![t] = r]
                               /\ req' = Alias(t, r)
                               /\ result' = [result EXCEPT ![t] = o2]
                      ELSE /\ result' = [result EXCEPT ![t] = PyDict(<<>>)]
                           /\ UNCHANGED <<lreq, req>>
    /\ pc' = [pc EXCEPT ![t] = "check"]
    /\ UNCHANGED <<service, endpoint, app_name, auth, reqOwner, api_url_mapping,
                   access_key_id, access_key_secret, args, ret, exc, ctorVars>>

\* lines 112-116 and Request.request: one call of the transport; a connection
\* error is caught and the result replaced by an empty dict
Dispatch(t) ==
    /\ pc[t] = "send"
    /\ IF lreq[t].method \notin DOMAIN func_mapping
       THEN /\ Raise(t, "TypeError")
            /\ UNCHANGED <<lreq, req, result, wire>>
       ELSE /\ \E o \in Outcomes :
                 /\ wire' = [wire EXCEPT ![t] = Append(@, WireEntry(lreq[t], o))]
                 /\ IF o.kind = "Response"
                    THEN LET r == [lreq[t] EXCEPT !.result = o]
                         IN  /\ lreq' = [lreq EXCEPT ![t] = r]
                             /\ req' = Alias(t, r)
                             /\ result' = [result EXCEPT ![t] = o]
                    ELSE /\ result' = [result EXCEPT ![t] = PyDict(<<>>)]
                         /\ UNCHANGED <<lreq, req>>
            /\ pc' = [pc EXCEPT ![t] = "check"]
            /\ UNCHANGED exc
    /\ UNCHANGED <<service, endpoint, app_name, auth, reqOwner, api_url_mapping,
                   access_key_id, access_key_secret, args, ret, ctorVars>>

\* Mutant of CheckStatus: `>= 500` instead of `> 500`.
CheckStatusFrom500(t) ==
    /\ pc[t] = "check"
    /\ IF result[t].kind # "Response"
       THEN Raise(t, "AttributeError") /\ UNCHANGED result
       ELSE /\ result' = [result EXCEPT ![t] =
                             IF @.status_code >= SERVER_ERROR THEN PyDict(<<>>) ELSE @]
            /\ pc' = [pc EXCEPT ![t] = "parse"]
            /\ UNCHANGED exc
    /\ UNCHANGED <<clientVars, args, lreq, ret, wire, ctorVars>>

\* lines 117-119: result.status_code is read; a dict has no such attribute
CheckStatus(t) ==
    /\ pc[t] = "check"
    /\ IF result[t].kind # "Response"
       THEN Raise(t, "AttributeError") /\ UNCHANGED result
       ELSE /\ result' = [result EXCEPT ![t] =
                             IF @.status_code > SERVER_ERROR THEN PyDict(<<>>) ELSE @]
            /\ pc' = [pc EXCEPT ![t] = "parse"]
            /\ UNCHANGED exc
    /\ UNCHANGED <<clientVars, args, lreq, ret, wire, ctorVars>>

\* DotMap({'content': content}).content
DotMapContent(content) ==
    IF IsDict(content) THEN PyDotMap(content.items) ELSE content

\* line 120 and parse_result: result.json() is called; only ValueError is caught
ParseResult(t) ==
    /\ pc[t] = "parse"
    /\ IF result[t].kind # "Response"
       THEN Raise(t, "AttributeError") /\ UNCHANGED ret
       ELSE LET content ==
                    IF result[t].body.json THEN result[t].body.value
                    ELSE PyDict(<< <<"error", PyStr("We only support json response")>> >>)
            IN  /\ ret' = [ret EXCEPT ![t] =
                              [result |-> result[t], content |-> DotMapContent(content)]]
                /\ pc' = [pc EXCEPT ![t] = "done"]
                /\ UNCHANGED exc
    /\ UNCHANGED <<clientVars, args, lreq, result, wire, ctorVars>>

\* the caller has consumed the return value or the exception
Finish(t) ==
    /\ pc[t] \in {"done", "raised", "auth_done"}
    /\ pc' = [pc EXCEPT ![t] = "idle"]
    /\ args' = [args EXCEPT ![t] = NoArgs]
    /\ lreq' = [lreq EXCEPT ![t] = PyNone]
    /\ result' = [result EXCEPT ![t] = PyNone]
    /\ ret' = [ret EXCEPT ![t] = PyNone]
    /\ exc' = [exc EXCEPT ![t] = "none"]
    /\ wire' = [wire EXCEPT ![t] = <<>>]
    /\ reqOwner' = IF reqOwner = t THEN "nobody" ELSE reqOwner
    /\ UNCHANGED <<service, endpoint, app_name, auth, req, api_url_mapping,
                   access_key_id, access_key_secret, ctorVars>>

(***************************************************************************)
(* Credential binding.                                                     *)
(***************************************************************************)
\* Mutant of UserServiceAuth: the credential is cleared before the inputs are
\* looked at, so an invalid combination unbinds it.
UserServiceAuthClears(cur, token, session_id, csrf_token) ==
    IF Truthy(token)
    THEN [auth |-> AuthInit([NoKw EXCEPT !.token = token]).value, exc |-> "none"]
    ELSE IF Truthy(session_id) /\ Truthy(csrf_token)
    THEN [auth |-> AuthInit([NoKw EXCEPT !.session_id = session_id,
                                         !.csrf_token = csrf_token]).value,
          exc |-> "none"]
    ELSE [auth |-> PyNone, exc |-> "ValueError"]

\* UserService.auth, auth_from_token, auth_from_session: the credential bound
\* afterwards and the exception raised
UserServiceAuth(cur, token, session_id, csrf_token) ==
    IF Truthy(token)
    THEN LET r == AuthInit([NoKw EXCEPT !.token = token])
         IN  IF r.ok THEN [auth |-> r.value, exc |-> "none"]
                     ELSE [auth |-> cur, exc |-> "ValueError"]
    ELSE IF Truthy(session_id) /\ Truthy(csrf_token)
    THEN LET r == AuthInit([NoKw EXCEPT !.session_id = session_id,
                                        !.csrf_token = csrf_token])
         IN  IF r.ok THEN [auth |-> r.value, exc |-> "none"]
                     ELSE [auth |-> cur, exc |-> "ValueError"]
    ELSE [auth |-> cur, exc |-> "ValueError"]

\* AppService.auth: the keys are stored when both are given, and the credential
\* is built from the stored keys
AppServiceAuth(cur, stored_id, stored_secret, key_id, key_secret) ==
    LET both == key_id # PyNone /\ key_secret # PyNone
        id2 == IF both THEN key_id ELSE stored_id
        secret2 == IF both THEN key_secret ELSE stored_secret
        r == AuthInit([NoKw EXCEPT !.access_key_id = id2,
                                   !.access_key_secret = secret2])
    IN  [access_key_id |-> id2,
         access_key_secret |-> secret2,
         auth |-> IF r.ok THEN r.value ELSE cur,
         exc |-> IF r.ok THEN "none" ELSE "ValueError"]

AuthOutcome(t, e) ==
    IF e = "none"
    THEN pc' = [pc EXCEPT ![t] = "auth_done"] /\ UNCHANGED exc
    ELSE Raise(t, e)

UserAuth(t) ==
    /\ service = "user"
    /\ pc[t] = "idle"
    /\ \E token \in CredValues, session_id \in CredValues, csrf_token \in CredValues :
          LET r == UserServiceAuth(auth, token, session_id, csrf_token)
          IN  /\ auth' = r.auth
              /\ args' = [args EXCEPT ![t] =
                             [op |-> "user_auth", token |-> token,
                              session_id |-> session_id, csrf_token |-> csrf_token]]
              /\ AuthOutcome(t, r.exc)
    /\ UNCHANGED <<service, endpoint, app_name, req, reqOwner, api_url_mapping,
                   access_key_id, access_key_secret, lreq, result, ret, wire,
                   ctorVars>>

AppAuth(t) ==
    /\ service = "app"
    /\ pc[t] = "idle"
    /\ \E key_id \in KeyIds, key_secret \in KeySecrets :
          LET r == AppServiceAuth(auth, access_key_id, access_key_secret,
                                  key_id, key_secret)
          IN  /\ auth' = r.auth
              /\ access_key_id' = r.access_key_id
              /\ access_key_secret' = r.access_key_secret
              /\ args' = [args EXCEPT ![t] =
                             [op |-> "app_auth", access_key_id |-> key_id,
                              access_key_secret |-> key_secret]]
              /\ AuthOutcome(t, r.exc)
    /\ UNCHANGED <<service, endpoint, app_name, req, reqOwner, api_url_mapping,
                   lreq, result, ret, wire, ctorVars>>

(***************************************************************************)
(* One caller: calls and credential binding in program order.              *)
(***************************************************************************)
Caller == "t1"

Next ==
    \/ BeginCall(Caller, CallArgs)
    \/ AuthGate(Caller)
    \/ SignRequest(Caller)
    \/ Dispatch(Caller)
    \/ CheckStatus(Caller)
    \/ ParseResult(Caller)
    \/ Finish(Caller)
    \/ UserAuth(Caller)
    \/ AppAuth(Caller)

Spec == Init /\ [][Next]_vars

(***************************************************************************)
(* Two callers sharing one client, the credential bound at construction.   *)
(***************************************************************************)
ConcArgs ==
    [api_name : {"finish-proxy-log", "unknown-op"}, pk : {PyInt(1)},
     method : {"get", "patch"}, use_auth : BOOLEAN, data : {PyNone},
     params : {PyNone}, content_type : {"application/json"}]

InitConc ==
    /\ service = "user"
    /\ endpoint \in Endpoints
    /\ app_name = ""
    /\ auth \in {PyNone, AuthInit([NoKw EXCEPT !.token = PyStr("s3cr3t")]).value}
    /\ req = PyNone
    /\ reqOwner = "nobody"
    /\ api_url_mapping = API_URL_MAPPING
    /\ access_key_id = PyNone
    /\ access_key_secret = PyNone
    /\ ThreadsInit
    /\ rq_in = PyNone
    /\ rq_out = PyNone

NextConc ==
    \E t \in Threads :
        \/ BeginCall(t, ConcArgs)
        \/ AuthGate(t)
        \/ SignRequest(t)
        \/ Dispatch(t)
        \/ CheckStatus(t)
        \/ ParseResult(t)
        \/ Finish(t)

SpecConc == InitConc /\ [][NextConc]_vars

(***************************************************************************)
(* Request.__init__ on its own, over the constructor's arguments.          *)
(***************************************************************************)
HeaderNames == {"Content-Type", "content-type", "User-Agent", "USER-AGENT", "X-Trace"}
HeaderValues == {"text/plain", "curl/7.0"}
BodyKeys == {"a", "b", "c"}
BodyValues == {PyInt(1), PyStr("x")}

\* the item sequences of dicts with at most n entries, keys distinct
ItemSeqs(keys, values, n) ==
    UNION {{s \in [1..k -> keys \X values] :
               \A i, j \in 1..k : i # j => s[i][1] # s[j][1]} : k \in 0..n}

HeaderArgs ==
    {PyNone, PyStr("User-Agent: curl/7.0")}
    \cup {PyDict(s) : s \in ItemSeqs(HeaderNames, HeaderValues, MaxHeaders)}

CtorBodies ==
    {PyNone, PyList(<<PyInt(1)>>), PyStr("x"), PyInt(5)}
    \cup {PyDict(s) : s \in ItemSeqs(BodyKeys, BodyValues, MaxBodyKeys)}
    \cup {PyDotMap(s) : s \in ItemSeqs(BodyKeys, BodyValues, MaxBodyKeys)}

CtorArgs ==
    [url : {<<"http://localhost:8080", "/">>}, method : {"post"},
     data : CtorBodies, params : {PyNone}, headers : HeaderArgs,
     content_type : {"application/json", "text/xml"}, app_name : {"", "coco"}]

InitCtor ==
    /\ ClientInit
    /\ service = "app"
    /\ endpoint = <<"http://localhost:8080">>
    /\ ThreadsInit
    /\ rq_in \in CtorArgs
    /\ rq_out = PyNone

Construct ==
    /\ rq_out = PyNone
    /\ rq_out' = RequestInit(rq_in.url, rq_in.method, rq_in.data, rq_in.params,
                             rq_in.headers, rq_in.content_type, rq_in.app_name)
    /\ UNCHANGED <<clientVars, threadVars, rq_in>>

NextCtor == Construct

SpecCtor == InitCtor /\ [][NextCtor]_vars

(***************************************************************************)
(* Properties.                                                             *)
(***************************************************************************)
InCall(t) == args[t].op = "request"
Dispatched(t) == wire[t] # <<>>
ConnectionFailed(t) ==
    Dispatched(t) /\ wire[t][1].outcome.kind \in {"ConnectionError", "ConnectTimeout"}
Responded(t) == Dispatched(t) /\ wire[t][1].outcome.kind = "Response"
EmptyResult == PyDict(<<>>)

\* C1: a call with use_auth true on a client whose credential is unbound ends
\* at the authentication gate with RequestError, and the transport has seen
\* nothing of it, whatever the operation, pk, method and body are.
C1_UnboundNeverDispatches ==
    \A t \in Threads :
        (InCall(t) /\ args[t].a.use_auth /\ auth = PyNone /\ pc[t] # "built")
            => /\ pc[t] = "raised"
               /\ exc[t] = "RequestError"
               /\ wire[t] = <<>>

C1_Witness ==
    \E t \in Threads :
        /\ InCall(t) /\ args[t].a.use_auth /\ auth = PyNone
        /\ pc[t] = "raised" /\ exc[t] = "RequestError"
        /\ args[t].a.method = "patch"
        /\ args[t].a.api_name = "finish-proxy-log"
        /\ args[t].a.pk = PyInt(1)
        /\ args[t].a.data # PyNone

\* C2 (as claimed): when the transport raises a connection error the call does
\* not raise, and it returns a result with no status code.
C2_ConnectionErrorReturns ==
    \A t \in Threads :
        ConnectionFailed(t)
            => /\ pc[t] # "raised"
               /\ exc[t] = "none"
               /\ (pc[t] = "done" => ret[t].result = EmptyResult)

\* C3 (as claimed): when the transport returns a status above 500 the call
\* does not raise, and it returns the empty result of a connection error.
C3_ServerErrorReturns ==
    \A t \in Threads :
        (Responded(t) /\ wire[t][1].outcome.status_code > SERVER_ERROR)
            => /\ pc[t] # "raised"
               /\ exc[t] = "none"
               /\ (pc[t] = "done" => ret[t].result = EmptyResult)

\* C4: when the transport returns a status of at most 500 with a body that is
\* not JSON, the call raises nothing and returns a mapping with the key
\* "error" together with the response carrying the status received.
HasKey(d, k) == \E i \in DOMAIN d.items : d.items[i][1] = k

C4_NonJsonBodyIsAbsorbed ==
    \A t \in Threads :
        (Responded(t) /\ wire[t][1].outcome.status_code <= SERVER_ERROR
                      /\ ~wire[t][1].outcome.body.json)
            => /\ pc[t] # "raised"
               /\ exc[t] = "none"
               /\ (pc[t] = "done"
                     => /\ IsDict(ret[t].content)
                        /\ HasKey(ret[t].content, "error")
                        /\ ret[t].result.kind = "Response"
                        /\ ret[t].result.status_code = wire[t][1].outcome.status_code)

C4_Witness ==
    \E t \in Threads :
        /\ pc[t] = "done"
        /\ Responded(t)
        /\ wire[t][1].outcome.status_code = SERVER_ERROR
        /\ ~wire[t][1].outcome.body.json
        /\ HasKey(ret[t].content, "error")

\* C5 (as claimed): an operation absent from the route table resolves to "/";
\* for a template with a slot every supplied pk, falsy ones included, is
\* substituted into the slot, so that the URL has no unfilled slot.
C5_EverySuppliedPkIsSubstituted ==
    \A t \in Threads :
        (InCall(t) /\ lreq[t] # PyNone)
            => LET a == args[t].a
                   base == RStripSlash(endpoint)
               IN  /\ a.api_name \notin DOMAIN api_url_mapping
                        => lreq[t].url = base \o <<"/">>
                   /\ (a.api_name \in DOMAIN api_url_mapping
                         /\ HasSlot(api_url_mapping[a.api_name])
                         /\ a.pk # PyNone)
                        => /\ ~HasSlot(lreq[t].url)
                           /\ \E i \in DOMAIN lreq[t].url : lreq[t].url[i] = Str(a.pk)

\* C8: a call that has passed the authentication gate has called the transport
\* exactly once when it ends, with the verb of its method argument and with
\* the headers the Request has after signing; before the dispatch step nothing
\* was sent, and no call sends twice, whatever the transport does.
VerbOf(method) ==
    CASE method = "get" -> "GET"
      [] method = "post" -> "POST"
      [] method = "put" -> "PUT"
      [] method = "patch" -> "PATCH"
      [] OTHER -> "?"

Signed(h) ==
    \/ "authorization" \in DOMAIN h
    \/ "cookie" \in DOMAIN h /\ "x-csrftoken" \in DOMAIN h

C8_DispatchedExactlyOnce ==
    \A t \in Threads :
        /\ Len(wire[t]) <= 1
        /\ pc[t] \in {"built", "sign", "send"} => wire[t] = <<>>
        /\ (InCall(t) /\ (pc[t] \in {"check", "parse", "done"}
                            \/ (pc[t] = "raised" /\ exc[t] # "RequestError")))
              => /\ Len(wire[t]) = 1
                 /\ wire[t][1].verb = VerbOf(args[t].a.method)
                 /\ wire[t][1].headers = lreq[t].headers
                 /\ args[t].a.use_auth => Signed(wire[t][1].headers)
                 /\ ~args[t].a.use_auth => ~Signed(wire[t][1].headers)

C8_Witness ==
    \E t \in Threads :
        /\ InCall(t) /\ args[t].a.use_auth /\ args[t].a.method = "put"
        /\ pc[t] = "raised" /\ exc[t] = "AttributeError"
        /\ ConnectionFailed(t)
        /\ Len(wire[t]) = 1
        /\ wire[t][1].verb = "PUT"

\* C9: the complete variants a credential binding is given.  UserService.auth
\* is given a token and a session id with a csrf token; AppService.auth is
\* given a key pair, passed or stored by an earlier call.
VariantsSupplied(a, stored_id, stored_secret) ==
    IF a.op = "user_auth"
    THEN (IF Truthy(a.token) THEN {"token"} ELSE {})
         \cup (IF Truthy(a.session_id) /\ Truthy(a.csrf_token) THEN {"session"} ELSE {})
    ELSE IF \/ a.access_key_id # PyNone /\ a.access_key_secret # PyNone
            \/ stored_id # PyNone /\ stored_secret # PyNone
         THEN {"keypair"}
         ELSE {}

AuthStep(t) == pc[t] = "idle" /\ pc'[t] \in {"auth_done", "raised"}

InvalidBindingRefused(t) ==
    VariantsSupplied(args'[t], access_key_id, access_key_secret) = {}
        => /\ pc'[t] = "raised"
           /\ exc'[t] = "ValueError"
           /\ auth' = auth
           /\ wire' = wire

\* C9 (as claimed): an invalid combination fails with a value error, leaves
\* the bound credential unchanged and reaches no transport; a credential is
\* bound only when exactly one complete variant is supplied.
C9_BoundOnlyWithExactlyOneVariant ==
    [][\A t \in Threads :
          AuthStep(t)
            => /\ InvalidBindingRefused(t)
               /\ pc'[t] = "auth_done"
                    => Cardinality(VariantsSupplied(args'[t], access_key_id,
                                                    access_key_secret)) = 1]_vars

\* C9 (amended): an invalid combination fails with a value error, leaves the
\* bound credential unchanged and reaches no transport; a credential is bound
\* only when at least one complete variant is supplied, and the credential
\* bound carries one variant: the token when a token is supplied, otherwise
\* the session pair or the key pair.
C9_BoundOnlyWithACompleteVariant ==
    [][\A t \in Threads :
          AuthStep(t)
            => LET given == VariantsSupplied(args'[t], access_key_id,
                                             access_key_secret)
               IN  /\ InvalidBindingRefused(t)
                   /\ pc'[t] = "auth_done"
                        => /\ given # {}
                           /\ auth'.kind = "Auth"
                           /\ auth'.variant \in given
                           /\ "token" \in given => auth'.variant = "token"]_vars

C9_Witness ==
    \E t \in Threads :
        /\ args[t].op = "user_auth"
        /\ args[t].token = PyNone
        /\ args[t].session_id = PyStr("s3cr3t")
        /\ args[t].csrf_token = PyNone
        /\ pc[t] = "raised" /\ exc[t] = "ValueError"
        /\ auth # PyNone

\* A step of a call of ApiRequest.request by thread t.
CallStep(t) == pc'[t] # pc[t] /\ (InCall(t) \/ args'[t].op = "request")

SuppliedHeaders == IF IsDict(rq_in.headers) THEN rq_in.headers.items ELSE <<>>

\* C6: a constructed Request has one Content-Type header, equal to the content
\* type given whatever the caller's headers hold under any letter case, and
\* one User-Agent header: the caller's own when the caller's headers have one
\* under any letter case, otherwise the SDK identifier, suffixed with "/" and
\* the application name when there is one.
C6_ContentTypeForcedUserAgentDefaulted ==
    rq_out # PyNone
        => LET h == rq_out.headers
               ct == {k \in DOMAIN h : Lower(k) = "content-type"}
               ua == {k \in DOMAIN h : Lower(k) = "user-agent"}
               own == {i \in DOMAIN SuppliedHeaders :
                          Lower(SuppliedHeaders[i][1]) = "user-agent"}
           IN  /\ Cardinality(ct) = 1
               /\ \A k \in ct : h[k].value = rq_in.content_type
               /\ Cardinality(ua) = 1
               /\ \A k \in ua :
                     IF own = {}
                     THEN h[k].value = IF rq_in.app_name = "" THEN "jms-sdk-py"
                                       ELSE "jms-sdk-py/" \o rq_in.app_name
                     ELSE \E i \in own : /\ h[k].value = SuppliedHeaders[i][2]
                                         /\ h[k].key = SuppliedHeaders[i][1]

C6_Witness ==
    /\ rq_out # PyNone
    /\ rq_in.headers = PyDict(<< <<"content-type", "text/plain">>,
                                 <<"USER-AGENT", "curl/7.0">> >>)
    /\ rq_in.content_type = "application/json"
    /\ rq_in.app_name = "coco"
    /\ rq_out.headers["content-type"].value = "application/json"
    /\ rq_out.headers["user-agent"].value = "curl/7.0"

\* json.loads on the token sequences of the model
JsonKeyOf(tok) ==
    CASE tok = "\"a\"" -> "a"
      [] tok = "\"b\"" -> "b"
      [] tok = "\"c\"" -> "c"
      [] OTHER -> "?"

JsonValueOf(tok) ==
    CASE tok = "1" -> PyInt(1)
      [] tok = "\"x\"" -> PyStr("x")
      [] tok = "null" -> PyNone
      [] OTHER -> [kind |-> "?"]

JsonObjectText(toks) ==
    /\ Len(toks) >= 2
    /\ toks[1] = "{"
    /\ toks[Len(toks)] = "}"
    /\ Len(toks) = 2 \/ Len(toks) % 4 = 1
    /\ \A i \in 2..(Len(toks) - 1) :
          /\ i % 4 = 3 => toks[i] = ":"
          /\ i % 4 = 1 => toks[i] = ","

json_loads(toks) ==
    {<<JsonKeyOf(toks[4 * i - 2]), JsonValueOf(toks[4 * i])>> :
        i \in 1..((Len(toks) - 1) \div 4)}

\* C7: the body of a constructed Request is the JSON text of an object: of the
\* body given, with exactly its keys and values, when the body is a dict, and
\* of the empty object for every other body.
C7_BodySerializedOrCoerced ==
    rq_out # PyNone
        => /\ JsonObjectText(rq_out.data)
           /\ IF IsDict(rq_in.data)
              THEN /\ json_loads(rq_out.data)
                        = {<<rq_in.data.items[i][1], rq_in.data.items[i][2]>> :
                              i \in DOMAIN rq_in.data.items}
                   /\ (Len(rq_out.data) - 1) \div 4 = Len(rq_in.data.items)
              ELSE rq_out.data = <<"{", "}">>

C7_Witness ==
    /\ rq_out # PyNone
    /\ rq_in.data = PyDotMap(<< <<"a", PyInt(1)>> >>)
    /\ rq_in.content_type = "application/json"
    /\ rq_out.data = <<"{", "\"a\"", ":", "1", "}">>
    /\ rq_out.headers["content-type"].value = "application/json"

====
